---- MODULE Spec2Model ----
(***************************************************************************)
(* Block-mapped file data path of osfs (src/file.c): osfs_read and         *)
(* osfs_write over one inode, its block map (i_blocks_array), its block    *)
(* count (i_blocks), its size (i_size) and the data area of the super      *)
(* block (data_blocks).                                                    *)
(*                                                                         *)
(* A call is a sequence of steps, one per program point that reads or      *)
(* writes the shared inode: pc[p] is the position of caller p inside       *)
(* osfs_write / osfs_read.  File positions stay far below 2^32 *           *)
(* BLOCK_SIZE, so the uint32_t logical_block_index holds *ppos /           *)
(* BLOCK_SIZE without truncation.                                          *)
(***************************************************************************)
EXTENDS Integers, Sequences, FiniteSets, TLC

\* ---- sizes of the model ------------------------------------------------
BLOCK_SIZE == 2
MAX_EXTENTS == 2
DATA_BLOCK_COUNT == 3
MaxWrites == 2
\* positions reach one byte past the largest file, lengths span two blocks
MaxPos == MAX_EXTENTS * BLOCK_SIZE + 1
MaxLen == BLOCK_SIZE + 1

\* ---- errno values ------------------------------------------------------
ENOSPC == 28
EFAULT == 14

Procs == {1, 2}
Phys == 0 .. (DATA_BLOCK_COUNT - 1)
Slots == 0 .. (MAX_EXTENTS - 1)
InBlock == 0 .. (BLOCK_SIZE - 1)
Offsets == 0 .. (MaxPos + MaxLen)

\* content of a slot of i_blocks_array that no write has stored yet
NoBlock == DATA_BLOCK_COUNT
\* content of a byte of the data area, or of the file, that no write placed
Stale == 0

VARIABLES
    i_size,              \* osfs_inode->i_size
    i_blocks,            \* osfs_inode->i_blocks
    i_blocks_array,      \* osfs_inode->i_blocks_array
    data_blocks,         \* sb_info->data_blocks, per physical block
    block_bitmap,        \* physical blocks the allocator has handed out
    i_mtime,             \* osfs_inode->__i_mtime
    i_ctime,             \* osfs_inode->__i_ctime
    dirty,               \* mark_inode_dirty(inode) was called
    now,                 \* current_time(inode)
    pc,                  \* position of each caller; "ret": the call has returned
    op,                  \* "read" / "write": the call the caller is in or left last
    ppos,                \* *ppos
    len,                 \* len (remaining)
    buf,                 \* buf, as an offset into the user buffer
    bytes_written,       \* bytes_written
    bytes_read,          \* bytes_read
    logical_block_index, \* logical_block_index
    offset_in_block,     \* offset_in_block
    physical_block_no,   \* physical_block_no
    ubuf,                \* user buffer: its tag for a write, the bytes received for a read
    ret,                 \* return value of the last call
    why,                 \* the line at which the call left its loop
    pos0,                \* *ppos at call entry
    len0,                \* len at call entry
    snap,                \* the inode and data area at call entry
    log,                 \* what the call did so far: blocks stored in the map, transfers
    seen,                \* what the calls so far did: "overlap", "sparse"
    prev,                \* the result of the read the caller is repeating, if any
    garbage,             \* what the never-stored slots of i_blocks_array turned out to hold
    lastw,               \* per file offset, the byte the latest write that returned a count placed
    faulted              \* some copy_from_user has failed

fileVars == <<i_size, i_blocks, i_blocks_array, data_blocks, block_bitmap,
              i_mtime, i_ctime, dirty>>
localVars == <<ppos, len, buf, bytes_written, bytes_read, logical_block_index,
               offset_in_block, physical_block_no, ubuf>>
callVars == <<op, ret, why, pos0, len0, snap>>
vars == <<fileVars, now, pc, localVars, callVars, log, seen, prev, garbage, lastw, faulted>>

\* ---- pure helpers ------------------------------------------------------
Min(a, b) == IF a < b THEN a ELSE b
Max(a, b) == IF a > b THEN a ELSE b

\* logical_block_index = *ppos / BLOCK_SIZE
LogicalBlockIndex(pos) == pos \div BLOCK_SIZE
\* offset_in_block = *ppos % BLOCK_SIZE
OffsetInBlock(pos) == pos % BLOCK_SIZE
\* the chunk taken as the whole remaining length
ChunkLen_Unclamped(o, l) == l
\* chunk_len = BLOCK_SIZE - offset_in_block; if (chunk_len > len) chunk_len = len
ChunkLen(o, l) == IF BLOCK_SIZE - o > l THEN l ELSE BLOCK_SIZE - o

\* byte i of the user buffer handed to the write call with tag t
UserByte(t, i) == t * (MaxLen + 2) + i + 1

\* the record of one copy_from_user / copy_to_user: logical block, offset in
\* the block, chunk length, physical block addressed, length still requested
Transfer(l, o, n, b, r) == <<"copy", l, o, n, b, r>>

\* b is what osfs_inode->i_blocks_array[s] reads as: the stored block number,
\* or for a slot never stored an indeterminate block number, the same at
\* every read of the slot
ReadSlot(s, b) ==
    IF i_blocks_array[s] # NoBlock
    THEN b = i_blocks_array[s] /\ garbage' = garbage
    ELSE IF garbage[s] # NoBlock
    THEN b = garbage[s] /\ garbage' = garbage
    ELSE b \in Phys /\ garbage' = [garbage EXCEPT ![s] = b]

Shared == [size |-> i_size, blocks |-> i_blocks, map |-> i_blocks_array,
           data |-> data_blocks, bitmap |-> block_bitmap, mtime |-> i_mtime,
           ctime |-> i_ctime, dirty |-> dirty]

\* caller p is inside a call
Running(p) == pc[p] \notin {"idle", "ret"}

\* the value of snap outside a call
NoSnap == [size |-> 0, blocks |-> 0, map |-> [s \in Slots |-> NoBlock],
           data |-> [b \in Phys |-> [o \in InBlock |-> Stale]], bitmap |-> {},
           mtime |-> 0, ctime |-> 0, dirty |-> FALSE]

AllIdle == \A q \in Procs : pc[q] = "idle"

Init ==
    /\ i_size = 0
    /\ i_blocks = 0
    /\ i_blocks_array = [s \in Slots |-> NoBlock]
    /\ data_blocks = [b \in Phys |-> [o \in InBlock |-> Stale]]
    /\ block_bitmap = {}
    /\ i_mtime = 0
    /\ i_ctime = 0
    /\ dirty = FALSE
    /\ now = 0
    /\ pc = [p \in Procs |-> "idle"]
    /\ op = [p \in Procs |-> "none"]
    /\ ppos = [p \in Procs |-> 0]
    /\ len = [p \in Procs |-> 0]
    /\ buf = [p \in Procs |-> 0]
    /\ bytes_written = [p \in Procs |-> 0]
    /\ bytes_read = [p \in Procs |-> 0]
    /\ logical_block_index = [p \in Procs |-> 0]
    /\ offset_in_block = [p \in Procs |-> 0]
    /\ physical_block_no = [p \in Procs |-> 0]
    /\ ubuf = [p \in Procs |-> <<>>]
    /\ ret = [p \in Procs |-> 0]
    /\ why = [p \in Procs |-> "none"]
    /\ pos0 = [p \in Procs |-> 0]
    /\ len0 = [p \in Procs |-> 0]
    /\ snap = [p \in Procs |-> NoSnap]
    /\ log = [p \in Procs |-> <<>>]
    /\ seen = {}
    /\ prev = [p \in Procs |-> <<>>]
    /\ garbage = [s \in Slots |-> NoBlock]
    /\ lastw = [o \in Offsets |-> Stale]
    /\ faulted = FALSE

\* ---- external collaborators --------------------------------------------
\* osfs_alloc_data_block(sb_info, &physical_block_no): the free blocks it can
\* hand out; the lowest free block of the bitmap
AllocChoices == IF Phys \ block_bitmap = {} THEN {}
                ELSE {CHOOSE b \in Phys \ block_bitmap :
                          \A c \in Phys \ block_bitmap : b <= c}

\* copy_from_user(data_block, buf, chunk_len) returning 0: the block after it
CopyFromUser(blk, o, t, b, n) ==
    [x \in InBlock |-> IF x >= o /\ x < o + n THEN UserByte(t, b + (x - o))
                       ELSE blk[x]]

\* copy_from_user failing after k bytes: the k bytes are copied and the rest
\* of the destination is zero-padded
CopyFromUserFault(blk, o, t, b, n, k) ==
    [x \in InBlock |-> IF x >= o /\ x < o + k THEN UserByte(t, b + (x - o))
                       ELSE IF x >= o + k /\ x < o + n THEN Stale
                       ELSE blk[x]]

\* ---- osfs_write --------------------------------------------------------
\* the capacity test off by one: > instead of >=
CapacityHit_OffByOne(l) == l > MAX_EXTENTS

\* the write loop without the maximum file size check
CapacityHit_Unchecked(l) == FALSE

\* if (logical_block_index >= MAX_EXTENTS)
CapacityHit(l) == l >= MAX_EXTENTS

\* a block allocated in every pass of the loop
NeedsAlloc_Always(l, n) == TRUE

\* allocation only strictly beyond the frontier
NeedsAlloc_Beyond(l, n) == l > n

\* if (logical_block_index >= osfs_inode->i_blocks)
NeedsAlloc(l, n) == l >= n

\* the partial-success test taken also with nothing written
HasProgress_Always(n) == n >= 0

\* if (bytes_written > 0) break;
HasProgress(n) == n > 0

\* the size set to the position without the comparison
NewSize_Always(size, pos) == pos

\* if (*ppos > osfs_inode->i_size) osfs_inode->i_size = *ppos;
NewSize(size, pos) == IF pos > size THEN pos ELSE size

\* entry of osfs_write(filp, buf, len, ppos)
WriteCall(p, pos, n) ==
    /\ pc[p] = "idle"
    /\ now < MaxWrites
    /\ now' = now + 1
    /\ pc' = [pc EXCEPT ![p] = "w_loop"]
    /\ op' = [op EXCEPT ![p] = "write"]
    /\ ppos' = [ppos EXCEPT ![p] = pos]
    /\ len' = [len EXCEPT ![p] = n]
    /\ buf' = [buf EXCEPT ![p] = 0]
    /\ bytes_written' = [bytes_written EXCEPT ![p] = 0]
    /\ ubuf' = [ubuf EXCEPT ![p] = <<now + 1>>]
    /\ ret' = [ret EXCEPT ![p] = 0]
    /\ why' = [why EXCEPT ![p] = "none"]
    /\ pos0' = [pos0 EXCEPT ![p] = pos]
    /\ len0' = [len0 EXCEPT ![p] = n]
    /\ snap' = [snap EXCEPT ![p] = Shared]
    /\ bytes_read' = [bytes_read EXCEPT ![p] = 0]
    /\ logical_block_index' = [logical_block_index EXCEPT ![p] = 0]
    /\ offset_in_block' = [offset_in_block EXCEPT ![p] = 0]
    /\ physical_block_no' = [physical_block_no EXCEPT ![p] = 0]
    /\ UNCHANGED <<fileVars, lastw, faulted>>
    /\ UNCHANGED garbage
    /\ UNCHANGED prev
    /\ log' = [log EXCEPT ![p] = <<>>]

\* while (len > 0) is false: leave the loop
WriteLoopDone(p) ==
    /\ pc[p] = "w_loop"
    /\ len[p] = 0
    /\ pc' = [pc EXCEPT ![p] = "w_post"]
    /\ why' = [why EXCEPT ![p] = "L86"]
    /\ UNCHANGED <<fileVars, now, localVars, op, ret, pos0, len0, snap, lastw, faulted>>
    /\ UNCHANGED garbage
    /\ UNCHANGED prev
    /\ UNCHANGED log
    /\ UNCHANGED seen

\* lines 88-96 with logical_block_index >= MAX_EXTENTS
WriteCapacity(p) ==
    /\ pc[p] = "w_loop"
    /\ len[p] > 0
    /\ CapacityHit(LogicalBlockIndex(ppos[p]))
    /\ logical_block_index' = [logical_block_index EXCEPT ![p] = LogicalBlockIndex(ppos[p])]
    /\ offset_in_block' = [offset_in_block EXCEPT ![p] = OffsetInBlock(ppos[p])]
    /\ IF HasProgress(bytes_written[p])
       THEN /\ pc' = [pc EXCEPT ![p] = "w_post"]
            /\ why' = [why EXCEPT ![p] = "L94"]
            /\ ret' = ret
       ELSE /\ pc' = [pc EXCEPT ![p] = "ret"]
            /\ why' = [why EXCEPT ![p] = "L95"]
            /\ ret' = [ret EXCEPT ![p] = -ENOSPC]
    /\ UNCHANGED <<fileVars, now, ppos, len, buf, bytes_written, bytes_read,
                   physical_block_no, ubuf, op, pos0, len0, snap, lastw, faulted>>
    /\ UNCHANGED garbage
    /\ UNCHANGED prev
    /\ UNCHANGED log
    /\ UNCHANGED seen

\* the allocation failure noticed only after i_blocks was incremented
WriteAllocFail_Counted(p) ==
    /\ pc[p] = "w_loop"
    /\ len[p] > 0
    /\ ~CapacityHit(LogicalBlockIndex(ppos[p]))
    /\ NeedsAlloc(LogicalBlockIndex(ppos[p]), i_blocks)
    /\ logical_block_index' = [logical_block_index EXCEPT ![p] = LogicalBlockIndex(ppos[p])]
    /\ offset_in_block' = [offset_in_block EXCEPT ![p] = OffsetInBlock(ppos[p])]
    /\ i_blocks' = i_blocks + 1
    /\ IF HasProgress(bytes_written[p])
       THEN /\ pc' = [pc EXCEPT ![p] = "w_post"]
            /\ why' = [why EXCEPT ![p] = "L105"]
            /\ ret' = ret
       ELSE /\ pc' = [pc EXCEPT ![p] = "ret"]
            /\ why' = [why EXCEPT ![p] = "L106"]
            /\ ret' = [ret EXCEPT ![p] = -ENOSPC]
    /\ UNCHANGED <<i_size, i_blocks_array, data_blocks, block_bitmap, i_mtime,
                   i_ctime, dirty, now, ppos, len, buf, bytes_written, bytes_read,
                   physical_block_no, ubuf, op, pos0, len0, snap, garbage, lastw,
                   faulted>>
    /\ UNCHANGED prev
    /\ UNCHANGED log
    /\ UNCHANGED seen

\* lines 88-107: the block is not allocated and osfs_alloc_data_block fails
WriteAllocFail(p) ==
    /\ pc[p] = "w_loop"
    /\ len[p] > 0
    /\ ~CapacityHit(LogicalBlockIndex(ppos[p]))
    /\ NeedsAlloc(LogicalBlockIndex(ppos[p]), i_blocks)
    /\ logical_block_index' = [logical_block_index EXCEPT ![p] = LogicalBlockIndex(ppos[p])]
    /\ offset_in_block' = [offset_in_block EXCEPT ![p] = OffsetInBlock(ppos[p])]
    /\ IF HasProgress(bytes_written[p])
       THEN /\ pc' = [pc EXCEPT ![p] = "w_post"]
            /\ why' = [why EXCEPT ![p] = "L105"]
            /\ ret' = ret
       ELSE /\ pc' = [pc EXCEPT ![p] = "ret"]
            /\ why' = [why EXCEPT ![p] = "L106"]
            /\ ret' = [ret EXCEPT ![p] = -ENOSPC]
    /\ UNCHANGED <<fileVars, now, ppos, len, buf, bytes_written, bytes_read,
                   physical_block_no, ubuf, op, pos0, len0, snap, lastw, faulted>>
    /\ UNCHANGED garbage
    /\ UNCHANGED prev
    /\ UNCHANGED log
    /\ UNCHANGED seen

\* lines 88-103: the block is not allocated and osfs_alloc_data_block succeeds
WriteAllocOk(p) ==
    /\ pc[p] = "w_loop"
    /\ len[p] > 0
    /\ ~CapacityHit(LogicalBlockIndex(ppos[p]))
    /\ NeedsAlloc(LogicalBlockIndex(ppos[p]), i_blocks)
    /\ \E b \in AllocChoices :
          /\ physical_block_no' = [physical_block_no EXCEPT ![p] = b]
          /\ block_bitmap' = block_bitmap \cup {b}
    /\ logical_block_index' = [logical_block_index EXCEPT ![p] = LogicalBlockIndex(ppos[p])]
    /\ offset_in_block' = [offset_in_block EXCEPT ![p] = OffsetInBlock(ppos[p])]
    /\ pc' = [pc EXCEPT ![p] = "w_store"]
    /\ UNCHANGED <<i_size, i_blocks, i_blocks_array, data_blocks, i_mtime, i_ctime,
                   dirty, now, ppos, len, buf, bytes_written, bytes_read, ubuf,
                   callVars, lastw, faulted>>
    /\ UNCHANGED garbage
    /\ UNCHANGED prev
    /\ UNCHANGED log
    /\ UNCHANGED seen

\* line 109: osfs_inode->i_blocks_array[logical_block_index] = physical_block_no
WriteStore(p) ==
    /\ pc[p] = "w_store"
    /\ i_blocks_array' = [i_blocks_array EXCEPT ![logical_block_index[p]] =
                              physical_block_no[p]]
    /\ pc' = [pc EXCEPT ![p] = "w_incr"]
    /\ UNCHANGED <<i_size, i_blocks, data_blocks, block_bitmap, i_mtime, i_ctime,
                   dirty, now, localVars, callVars, lastw, faulted>>
    /\ UNCHANGED garbage
    /\ UNCHANGED prev
    /\ log' = [log EXCEPT ![p] = Append(@, <<"store", logical_block_index[p],
                                           physical_block_no[p]>>)]
    /\ UNCHANGED seen

\* lines 110-111: osfs_inode->i_blocks++ (inode->i_blocks moves with it)
WriteIncr(p) ==
    /\ pc[p] = "w_incr"
    /\ i_blocks' = i_blocks + 1
    /\ pc' = [pc EXCEPT ![p] = "w_copy"]
    /\ UNCHANGED <<i_size, i_blocks_array, data_blocks, block_bitmap, i_mtime,
                   i_ctime, dirty, now, localVars, callVars, lastw, faulted>>
    /\ UNCHANGED garbage
    /\ UNCHANGED prev
    /\ UNCHANGED log
    /\ UNCHANGED seen

\* lines 88-90, 112-115: the block is allocated, look it up
WriteLookup(p) ==
    /\ pc[p] = "w_loop"
    /\ len[p] > 0
    /\ ~CapacityHit(LogicalBlockIndex(ppos[p]))
    /\ ~NeedsAlloc(LogicalBlockIndex(ppos[p]), i_blocks)
    /\ \E b \in Phys :
          /\ ReadSlot(LogicalBlockIndex(ppos[p]), b)
          /\ physical_block_no' = [physical_block_no EXCEPT ![p] = b]
    /\ logical_block_index' = [logical_block_index EXCEPT ![p] = LogicalBlockIndex(ppos[p])]
    /\ offset_in_block' = [offset_in_block EXCEPT ![p] = OffsetInBlock(ppos[p])]
    /\ pc' = [pc EXCEPT ![p] = "w_copy"]
    /\ UNCHANGED <<fileVars, now, ppos, len, buf, bytes_written, bytes_read, ubuf,
                   callVars, lastw, faulted>>
    /\ UNCHANGED prev
    /\ UNCHANGED log
    /\ UNCHANGED seen

\* the copy that advances neither the position nor the remaining length
WriteCopy_Stalled(p) ==
    /\ pc[p] = "w_copy"
    /\ pc' = [pc EXCEPT ![p] = "w_loop"]
    /\ UNCHANGED <<fileVars, now, localVars, callVars, log, prev, garbage, lastw,
                   faulted>>
    /\ UNCHANGED seen

\* lines 120-137 with copy_from_user returning 0
WriteCopy(p) ==
    /\ pc[p] = "w_copy"
    /\ LET chunk_len == ChunkLen(offset_in_block[p], len[p])
           b == physical_block_no[p]
       IN  /\ data_blocks' = [data_blocks EXCEPT ![b] =
                  CopyFromUser(@, offset_in_block[p], ubuf[p][1], buf[p], chunk_len)]
           /\ buf' = [buf EXCEPT ![p] = @ + chunk_len]
           /\ ppos' = [ppos EXCEPT ![p] = @ + chunk_len]
           /\ len' = [len EXCEPT ![p] = @ - chunk_len]
           /\ bytes_written' = [bytes_written EXCEPT ![p] = @ + chunk_len]
    /\ pc' = [pc EXCEPT ![p] = "w_loop"]
    /\ UNCHANGED <<i_size, i_blocks, i_blocks_array, block_bitmap, i_mtime, i_ctime,
                   dirty, now, bytes_read, logical_block_index, offset_in_block,
                   physical_block_no, ubuf, callVars, lastw, faulted>>
    /\ UNCHANGED garbage
    /\ UNCHANGED prev
    /\ log' = [log EXCEPT ![p] = Append(@, Transfer(logical_block_index[p],
                offset_in_block[p], ChunkLen(offset_in_block[p], len[p]),
                physical_block_no[p], len[p]))]
    /\ UNCHANGED seen

\* the transfer fault treated like an allocation failure: break with the
\* partial count when something was written
WriteFault_Absorbed(p) ==
    /\ pc[p] = "w_copy"
    /\ LET chunk_len == ChunkLen(offset_in_block[p], len[p])
           b == physical_block_no[p]
       IN  \E k \in 0 .. (chunk_len - 1) :
              data_blocks' = [data_blocks EXCEPT ![b] =
                  CopyFromUserFault(@, offset_in_block[p], ubuf[p][1], buf[p],
                                    chunk_len, k)]
    /\ IF HasProgress(bytes_written[p])
       THEN /\ pc' = [pc EXCEPT ![p] = "w_post"]
            /\ ret' = ret
       ELSE /\ pc' = [pc EXCEPT ![p] = "ret"]
            /\ ret' = [ret EXCEPT ![p] = -EFAULT]
    /\ why' = [why EXCEPT ![p] = "L131"]
    /\ faulted' = TRUE
    /\ UNCHANGED <<i_size, i_blocks, i_blocks_array, block_bitmap, i_mtime, i_ctime,
                   dirty, now, localVars, op, pos0, len0, snap, garbage, lastw>>
    /\ UNCHANGED prev
    /\ log' = [log EXCEPT ![p] = Append(@, Transfer(logical_block_index[p],
                offset_in_block[p], ChunkLen(offset_in_block[p], len[p]),
                physical_block_no[p], len[p]))]
    /\ UNCHANGED seen

\* the transfer fault leaving through the metadata update: the timestamps
\* are refreshed and the inode marked dirty before -EFAULT is returned
WriteFault_Stamped(p) ==
    /\ pc[p] = "w_copy"
    /\ LET chunk_len == ChunkLen(offset_in_block[p], len[p])
           b == physical_block_no[p]
       IN  \E k \in 0 .. (chunk_len - 1) :
              data_blocks' = [data_blocks EXCEPT ![b] =
                  CopyFromUserFault(@, offset_in_block[p], ubuf[p][1], buf[p],
                                    chunk_len, k)]
    /\ i_mtime' = now
    /\ i_ctime' = now
    /\ dirty' = TRUE
    /\ pc' = [pc EXCEPT ![p] = "ret"]
    /\ ret' = [ret EXCEPT ![p] = -EFAULT]
    /\ why' = [why EXCEPT ![p] = "L131"]
    /\ faulted' = TRUE
    /\ UNCHANGED <<i_size, i_blocks, i_blocks_array, block_bitmap, now, localVars,
                   op, pos0, len0, snap, prev, garbage, lastw>>
    /\ log' = [log EXCEPT ![p] = Append(@, Transfer(logical_block_index[p],
                offset_in_block[p], ChunkLen(offset_in_block[p], len[p]),
                physical_block_no[p], len[p]))]
    /\ UNCHANGED seen

\* lines 120-132 with copy_from_user failing: return -EFAULT
WriteFault(p) ==
    /\ pc[p] = "w_copy"
    /\ LET chunk_len == ChunkLen(offset_in_block[p], len[p])
           b == physical_block_no[p]
       IN  \E k \in 0 .. (chunk_len - 1) :
              data_blocks' = [data_blocks EXCEPT ![b] =
                  CopyFromUserFault(@, offset_in_block[p], ubuf[p][1], buf[p],
                                    chunk_len, k)]
    /\ pc' = [pc EXCEPT ![p] = "ret"]
    /\ ret' = [ret EXCEPT ![p] = -EFAULT]
    /\ why' = [why EXCEPT ![p] = "L131"]
    /\ faulted' = TRUE
    /\ UNCHANGED <<i_size, i_blocks, i_blocks_array, block_bitmap, i_mtime, i_ctime,
                   dirty, now, localVars, op, pos0, len0, snap, lastw>>
    /\ UNCHANGED garbage
    /\ UNCHANGED prev
    /\ log' = [log EXCEPT ![p] = Append(@, Transfer(logical_block_index[p],
                offset_in_block[p], ChunkLen(offset_in_block[p], len[p]),
                physical_block_no[p], len[p]))]
    /\ UNCHANGED seen

\* the write returning the requested length instead of the bytes written
WritePost_Requested(p) ==
    /\ pc[p] = "w_post"
    /\ i_size' = NewSize(i_size, ppos[p])
    /\ i_mtime' = now
    /\ i_ctime' = now
    /\ dirty' = TRUE
    /\ ret' = [ret EXCEPT ![p] = len0[p]]
    /\ pc' = [pc EXCEPT ![p] = "ret"]
    /\ lastw' = [o \in Offsets |->
                    IF o >= pos0[p] /\ o < pos0[p] + bytes_written[p]
                    THEN UserByte(ubuf[p][1], o - pos0[p]) ELSE lastw[o]]
    /\ UNCHANGED <<i_blocks, i_blocks_array, data_blocks, block_bitmap, now,
                   localVars, op, why, pos0, len0, snap, faulted>>
    /\ UNCHANGED garbage
    /\ UNCHANGED prev
    /\ UNCHANGED log
    /\ UNCHANGED seen

\* lines 142-158: size (inode->i_size moves with it), timestamps, dirty mark,
\* return bytes_written
WritePost(p) ==
    /\ pc[p] = "w_post"
    /\ i_size' = NewSize(i_size, ppos[p])
    /\ i_mtime' = now
    /\ i_ctime' = now
    /\ dirty' = TRUE
    /\ ret' = [ret EXCEPT ![p] = bytes_written[p]]
    /\ pc' = [pc EXCEPT ![p] = "ret"]
    /\ lastw' = [o \in Offsets |->
                    IF o >= pos0[p] /\ o < pos0[p] + bytes_written[p]
                    THEN UserByte(ubuf[p][1], o - pos0[p]) ELSE lastw[o]]
    /\ UNCHANGED <<i_blocks, i_blocks_array, data_blocks, block_bitmap, now,
                   localVars, op, why, pos0, len0, snap, faulted>>
    /\ UNCHANGED garbage
    /\ UNCHANGED prev
    /\ UNCHANGED log
    /\ UNCHANGED seen

\* ---- osfs_read ---------------------------------------------------------
\* if (*ppos >= osfs_inode->i_size) return 0;
AtEof(pos, size) == pos >= size

\* if (*ppos + len > osfs_inode->i_size) len = osfs_inode->i_size - *ppos;
ClampLen(pos, n, size) == IF pos + n > size THEN size - pos ELSE n

\* if (logical_block_index >= osfs_inode->i_blocks) break;
PastAllocated(l, n) == l >= n

\* copy_to_user(buf, data_block, chunk_len) returning 0: the bytes delivered
CopyToUser(blk, o, n) == [i \in 1 .. n |-> blk[o + i - 1]]

\* what entering a call resets: the locals of the function
EnterCall(p, name, pos, n) ==
    /\ op' = [op EXCEPT ![p] = name]
    /\ ppos' = [ppos EXCEPT ![p] = pos]
    /\ buf' = [buf EXCEPT ![p] = 0]
    /\ bytes_written' = [bytes_written EXCEPT ![p] = 0]
    /\ bytes_read' = [bytes_read EXCEPT ![p] = 0]
    /\ logical_block_index' = [logical_block_index EXCEPT ![p] = 0]
    /\ offset_in_block' = [offset_in_block EXCEPT ![p] = 0]
    /\ physical_block_no' = [physical_block_no EXCEPT ![p] = 0]
    /\ pos0' = [pos0 EXCEPT ![p] = pos]
    /\ len0' = [len0 EXCEPT ![p] = n]
    /\ snap' = [snap EXCEPT ![p] = Shared]

\* lines 23-24: osfs_read at or past the end of the file
ReadEof(p, pos, n) ==
    /\ pc[p] = "idle"
    /\ AtEof(pos, i_size)
    /\ EnterCall(p, "read", pos, n)
    /\ len' = [len EXCEPT ![p] = n]
    /\ ubuf' = [ubuf EXCEPT ![p] = <<>>]
    /\ ret' = [ret EXCEPT ![p] = 0]
    /\ why' = [why EXCEPT ![p] = "L24"]
    /\ pc' = [pc EXCEPT ![p] = "ret"]
    /\ UNCHANGED <<fileVars, now, lastw, faulted>>
    /\ UNCHANGED garbage
    /\ UNCHANGED prev
    /\ log' = [log EXCEPT ![p] = <<>>]
    /\ UNCHANGED seen

\* lines 23-27: entry of osfs_read(filp, buf, len, ppos) below the end
ReadCall(p, pos, n) ==
    /\ pc[p] = "idle"
    /\ ~AtEof(pos, i_size)
    /\ EnterCall(p, "read", pos, n)
    /\ len' = [len EXCEPT ![p] = ClampLen(pos, n, i_size)]
    /\ ubuf' = [ubuf EXCEPT ![p] = <<>>]
    /\ ret' = [ret EXCEPT ![p] = 0]
    /\ why' = [why EXCEPT ![p] = "none"]
    /\ pc' = [pc EXCEPT ![p] = "r_loop"]
    /\ UNCHANGED <<fileVars, now, lastw, faulted>>
    /\ UNCHANGED garbage
    /\ UNCHANGED prev
    /\ log' = [log EXCEPT ![p] = <<>>]
    /\ UNCHANGED seen

\* while (len > 0) is false: return bytes_read
ReadLoopDone(p) ==
    /\ pc[p] = "r_loop"
    /\ len[p] = 0
    /\ pc' = [pc EXCEPT ![p] = "ret"]
    /\ ret' = [ret EXCEPT ![p] = bytes_read[p]]
    /\ why' = [why EXCEPT ![p] = "L29"]
    /\ UNCHANGED <<fileVars, now, localVars, op, pos0, len0, snap, lastw, faulted>>
    /\ UNCHANGED garbage
    /\ UNCHANGED prev
    /\ UNCHANGED log
    /\ UNCHANGED seen

\* the read repairing the size it found unbacked: i_size cut to the position
\* of the break
ReadBreak_Truncating(p) ==
    /\ pc[p] = "r_loop"
    /\ len[p] > 0
    /\ PastAllocated(LogicalBlockIndex(ppos[p]), i_blocks)
    /\ logical_block_index' = [logical_block_index EXCEPT ![p] = LogicalBlockIndex(ppos[p])]
    /\ offset_in_block' = [offset_in_block EXCEPT ![p] = OffsetInBlock(ppos[p])]
    /\ i_size' = ppos[p]
    /\ pc' = [pc EXCEPT ![p] = "ret"]
    /\ ret' = [ret EXCEPT ![p] = bytes_read[p]]
    /\ why' = [why EXCEPT ![p] = "L39"]
    /\ UNCHANGED <<i_blocks, i_blocks_array, data_blocks, block_bitmap, i_mtime,
                   i_ctime, dirty, now, ppos, len, buf, bytes_written, bytes_read,
                   physical_block_no, ubuf, op, pos0, len0, snap, prev, garbage,
                   lastw, faulted>>
    /\ UNCHANGED log
    /\ UNCHANGED seen

\* lines 30-39, 55: the block is past i_blocks, break and return bytes_read
ReadBreak(p) ==
    /\ pc[p] = "r_loop"
    /\ len[p] > 0
    /\ PastAllocated(LogicalBlockIndex(ppos[p]), i_blocks)
    /\ logical_block_index' = [logical_block_index EXCEPT ![p] = LogicalBlockIndex(ppos[p])]
    /\ offset_in_block' = [offset_in_block EXCEPT ![p] = OffsetInBlock(ppos[p])]
    /\ pc' = [pc EXCEPT ![p] = "ret"]
    /\ ret' = [ret EXCEPT ![p] = bytes_read[p]]
    /\ why' = [why EXCEPT ![p] = "L39"]
    /\ UNCHANGED <<fileVars, now, ppos, len, buf, bytes_written, bytes_read,
                   physical_block_no, ubuf, op, pos0, len0, snap, lastw, faulted>>
    /\ UNCHANGED garbage
    /\ UNCHANGED prev
    /\ UNCHANGED log
    /\ UNCHANGED seen

\* lines 30-52 with copy_to_user returning 0
ReadCopy(p) ==
    /\ pc[p] = "r_loop"
    /\ len[p] > 0
    /\ ~PastAllocated(LogicalBlockIndex(ppos[p]), i_blocks)
    /\ LET l == LogicalBlockIndex(ppos[p])
           o == OffsetInBlock(ppos[p])
           chunk_len == ChunkLen(o, len[p])
       IN  /\ logical_block_index' = [logical_block_index EXCEPT ![p] = l]
           /\ offset_in_block' = [offset_in_block EXCEPT ![p] = o]
           /\ \E b \in Phys :
                 /\ ReadSlot(l, b)
                 /\ physical_block_no' = [physical_block_no EXCEPT ![p] = b]
                 /\ ubuf' = [ubuf EXCEPT ![p] =
                                @ \o CopyToUser(data_blocks[b], o, chunk_len)]
           /\ buf' = [buf EXCEPT ![p] = @ + chunk_len]
           /\ ppos' = [ppos EXCEPT ![p] = @ + chunk_len]
           /\ len' = [len EXCEPT ![p] = @ - chunk_len]
           /\ bytes_read' = [bytes_read EXCEPT ![p] = @ + chunk_len]
    /\ pc' = pc
    /\ UNCHANGED <<fileVars, now, bytes_written, callVars, lastw, faulted>>
    /\ UNCHANGED prev
    /\ log' = [log EXCEPT ![p] = Append(@, Transfer(logical_block_index'[p],
                offset_in_block'[p], ChunkLen(offset_in_block'[p], len[p]),
                physical_block_no'[p], len[p]))]
    /\ UNCHANGED seen

\* lines 30-46 with copy_to_user failing: return -EFAULT
ReadFault(p) ==
    /\ pc[p] = "r_loop"
    /\ len[p] > 0
    /\ ~PastAllocated(LogicalBlockIndex(ppos[p]), i_blocks)
    /\ LET l == LogicalBlockIndex(ppos[p])
       IN  /\ logical_block_index' = [logical_block_index EXCEPT ![p] = l]
           /\ offset_in_block' = [offset_in_block EXCEPT ![p] = OffsetInBlock(ppos[p])]
           /\ \E b \in Phys :
                 /\ ReadSlot(l, b)
                 /\ physical_block_no' = [physical_block_no EXCEPT ![p] = b]
    /\ pc' = [pc EXCEPT ![p] = "ret"]
    /\ ret' = [ret EXCEPT ![p] = -EFAULT]
    /\ why' = [why EXCEPT ![p] = "L46"]
    /\ UNCHANGED <<fileVars, now, ppos, len, buf, bytes_written, bytes_read, ubuf,
                   op, pos0, len0, snap, lastw, faulted>>
    /\ UNCHANGED prev
    /\ log' = [log EXCEPT ![p] = Append(@, Transfer(logical_block_index'[p],
                offset_in_block'[p], ChunkLen(offset_in_block'[p], len[p]),
                physical_block_no'[p], len[p]))]
    /\ UNCHANGED seen

\* the caller of a read that returned calls osfs_read again with the same
\* position and length, nothing happening in between
ReadRepeat(p) ==
    /\ pc[p] = "ret"
    /\ op[p] = "read"
    /\ prev[p] = <<>>
    /\ prev' = [prev EXCEPT ![p] = <<ret[p], ubuf[p]>>]
    /\ EnterCall(p, "read", pos0[p], len0[p])
    /\ ubuf' = [ubuf EXCEPT ![p] = <<>>]
    /\ ret' = [ret EXCEPT ![p] = 0]
    /\ IF AtEof(pos0[p], i_size)
       THEN /\ len' = [len EXCEPT ![p] = len0[p]]
            /\ why' = [why EXCEPT ![p] = "L24"]
            /\ pc' = pc
       ELSE /\ len' = [len EXCEPT ![p] = ClampLen(pos0[p], len0[p], i_size)]
            /\ why' = [why EXCEPT ![p] = "none"]
            /\ pc' = [pc EXCEPT ![p] = "r_loop"]
    /\ UNCHANGED <<fileVars, now, garbage, lastw, faulted>>
    /\ log' = [log EXCEPT ![p] = <<>>]
    /\ UNCHANGED seen

\* the caller takes the return value; the frame of the call is gone
Return(p) ==
    /\ pc[p] = "ret"
    /\ pc' = [pc EXCEPT ![p] = "idle"]
    /\ op' = [op EXCEPT ![p] = "none"]
    /\ ppos' = [ppos EXCEPT ![p] = 0]
    /\ len' = [len EXCEPT ![p] = 0]
    /\ buf' = [buf EXCEPT ![p] = 0]
    /\ bytes_written' = [bytes_written EXCEPT ![p] = 0]
    /\ bytes_read' = [bytes_read EXCEPT ![p] = 0]
    /\ logical_block_index' = [logical_block_index EXCEPT ![p] = 0]
    /\ offset_in_block' = [offset_in_block EXCEPT ![p] = 0]
    /\ physical_block_no' = [physical_block_no EXCEPT ![p] = 0]
    /\ ubuf' = [ubuf EXCEPT ![p] = <<>>]
    /\ ret' = [ret EXCEPT ![p] = 0]
    /\ why' = [why EXCEPT ![p] = "none"]
    /\ pos0' = [pos0 EXCEPT ![p] = 0]
    /\ len0' = [len0 EXCEPT ![p] = 0]
    /\ snap' = [snap EXCEPT ![p] = NoSnap]
    /\ UNCHANGED <<fileVars, now, garbage, lastw, faulted>>
    /\ prev' = [prev EXCEPT ![p] = <<>>]
    /\ log' = [log EXCEPT ![p] = <<>>]
    /\ UNCHANGED seen

\* ---- the callers -------------------------------------------------------
Positions == 0 .. MaxPos
Lengths == 0 .. MaxLen

\* one step of caller p inside osfs_write
WriteStep(p) ==
    \/ WriteLoopDone(p)
    \/ WriteCapacity(p)
    \/ WriteAllocFail(p)
    \/ WriteAllocOk(p)
    \/ WriteStore(p)
    \/ WriteIncr(p)
    \/ WriteLookup(p)
    \/ WriteCopy(p)
    \/ WriteFault(p)
    \/ WritePost(p)

\* one step of caller p inside osfs_read
ReadStep(p) ==
    \/ ReadLoopDone(p)
    \/ ReadBreak(p)
    \/ ReadCopy(p)
    \/ ReadFault(p)

\* a caller enters osfs_write; the caller of the file operations serializes
\* the calls on one file
EnterWrite(p) ==
    /\ AllIdle
    /\ \E pos \in Positions, n \in Lengths : WriteCall(p, pos, n)
    /\ UNCHANGED seen

\* a caller enters osfs_read
EnterRead(p) ==
    /\ AllIdle
    /\ \E pos \in Positions, n \in Lengths :
          ReadEof(p, pos, n) \/ ReadCall(p, pos, n)

\* the file used through .read and .write
Next == \E p \in {1} : EnterWrite(p) \/ WriteStep(p) \/ EnterRead(p) \/ ReadStep(p)
                       \/ ReadRepeat(p) \/ Return(p)

Spec == Init /\ [][Next]_vars

\* the file used through .write alone
NextWrite == \E p \in {1} : EnterWrite(p) \/ WriteStep(p) \/ Return(p)

SpecWrite == Init /\ [][NextWrite]_vars

\* the file filled by one write anywhere, overwritten from its start, read and
\* read again
EnterFirstWrite(p) == now = 0 /\ EnterWrite(p)

EnterOverwrite(p) ==
    /\ now >= 1
    /\ AllIdle
    /\ \E n \in Lengths : WriteCall(p, 0, n)
    /\ UNCHANGED seen

NextRead == \E p \in {1} : EnterFirstWrite(p) \/ EnterOverwrite(p) \/ WriteStep(p)
                           \/ EnterRead(p) \/ ReadStep(p) \/ ReadRepeat(p) \/ Return(p)

SpecRead == Init /\ [][NextRead]_vars

\* the file filled by one write anywhere, overwritten once from its start, and
\* read.  A call, once entered, keeps executing: the steps inside osfs_read
\* and osfs_write are taken as long as one is possible.
EnterSecondWrite(p) == now = 1 /\ EnterOverwrite(p)

NextLive == \E p \in {1} : EnterFirstWrite(p) \/ EnterSecondWrite(p) \/ WriteStep(p)
                           \/ EnterRead(p) \/ ReadStep(p) \/ Return(p)

SpecLive == Init /\ [][NextLive]_vars /\ WF_vars(WriteStep(1) \/ ReadStep(1))

\* two callers of .write on one file with no exclusion between them, one call
\* each, caller 1 the first to enter: caller 2 enters after caller 1 returned,
\* or while caller 1 is between its test of i_blocks (line 102) and its
\* increment (line 110), and from there the two calls interleave step by step.  seen records whether
\* a call was entered while another was running, and whether a call started
\* beyond the allocated frontier.
RaceEnter(p) ==
    \E pos \in Positions, n \in Lengths :
        /\ \A q \in Procs : q < p => pc[q] \in {"ret", "w_store", "w_incr"}
        /\ WriteCall(p, pos, n)
        /\ seen' = seen \cup (IF \E q \in Procs \ {p} : Running(q)
                               THEN {"overlap"} ELSE {})
                        \cup (IF pos > i_blocks * BLOCK_SIZE
                               THEN {"sparse"} ELSE {})

NextRace == \E p \in Procs : RaceEnter(p) \/ WriteStep(p)

SpecRace == Init /\ [][NextRace]_vars

\* ---- properties --------------------------------------------------------
\* caller p has returned from a call of the named function
Done(p, name) == pc[p] = "ret" /\ op[p] = name

\* C1: with no transfer fault so far, every byte a read returns for a file
\* offset that some write covered is the byte the latest write that returned
\* a count placed at that offset.
C1_ReadAfterWrite ==
    \A p \in Procs :
        (Done(p, "read") /\ ret[p] >= 0 /\ ~faulted) =>
            \A i \in 1 .. ret[p] :
                lastw[pos0[p] + i - 1] # Stale =>
                    ubuf[p][i] = lastw[pos0[p] + i - 1]

\* C2: a read below the end of the file that suffers no transfer fault
\* returns exactly min(len, size - pos) bytes.
C2_ReadCount ==
    \A p \in Procs :
        (Done(p, "read") /\ ret[p] >= 0 /\ pos0[p] < i_size) =>
            /\ ret[p] = Min(len0[p], i_size - pos0[p])
            /\ Len(ubuf[p]) = ret[p]

\* C3: i_blocks never decreases, grows by one at a time, and every block a
\* write allocates is for the logical index equal to i_blocks at that moment.
C3_SequentialAllocation ==
    [][ /\ i_blocks' >= i_blocks
        /\ i_blocks' <= i_blocks + 1
        /\ \A p \in Procs :
              (pc[p] = "w_loop" /\ pc'[p] = "w_store") =>
                  logical_block_index'[p] = i_blocks ]_vars

\* C4: 0 <= i_size <= i_blocks * BLOCK_SIZE in every state.
C4_SizeBacked == i_size >= 0 /\ i_size <= i_blocks * BLOCK_SIZE

\* C5: a write that stops with bytes left because its position reached
\* logical block MAX_EXTENTS returns -ENOSPC when it started there (nothing
\* written), and otherwise returns the number of bytes between its start and
\* the boundary, all of which it wrote.
C5_CapacityBoundary ==
    \A p \in Procs :
        (Done(p, "write") /\ len[p] > 0
           /\ LogicalBlockIndex(ppos[p]) >= MAX_EXTENTS) =>
            IF LogicalBlockIndex(pos0[p]) >= MAX_EXTENTS
            THEN ret[p] = -ENOSPC /\ ppos[p] = pos0[p]
            ELSE /\ ret[p] = MAX_EXTENTS * BLOCK_SIZE - pos0[p]
                 /\ ppos[p] = pos0[p] + ret[p]
                 /\ len[p] = len0[p] - ret[p]

C5_Witness ==
    /\ Done(1, "write") /\ len[1] > 0
    /\ LogicalBlockIndex(ppos[1]) >= MAX_EXTENTS
    /\ ret[1] > 0 /\ why[1] = "L94"

\* C6: a write whose allocation fails after n > 0 bytes returns n and the
\* size is max(old size, start + n); one whose allocation fails with n = 0
\* returns the out-of-space error and has transferred nothing.
C6_AllocFailure ==
    \A p \in Procs :
        Done(p, "write") =>
            /\ why[p] = "L105" =>
                  /\ ret[p] > 0
                  /\ ret[p] = ppos[p] - pos0[p]
                  /\ i_size = Max(snap[p].size, pos0[p] + ret[p])
            /\ why[p] = "L106" =>
                  /\ ret[p] = -ENOSPC
                  /\ ppos[p] = pos0[p]
                  /\ data_blocks = snap[p].data
            /\ (len[p] > 0 /\ ret[p] >= 0 /\ ~CapacityHit(LogicalBlockIndex(ppos[p])))
                  => why[p] = "L105"

C6_Witness ==
    /\ Done(1, "write") /\ why[1] = "L105"
    /\ ret[1] > 0 /\ ret[1] < len0[1]
    /\ i_size = pos0[1] + ret[1] /\ i_size > snap[1].size

\* C7: a write that hits the capacity limit or an allocation failure before
\* writing any byte returns an error and leaves the inode, the data area and
\* the position as they were at the call.
C7_ZeroByteFailure ==
    \A p \in Procs :
        (Done(p, "write") /\ why[p] \in {"L95", "L106"}) =>
            /\ ret[p] < 0
            /\ Shared = snap[p]
            /\ ppos[p] = pos0[p]

C7_Witness ==
    /\ Done(1, "write") /\ why[1] = "L106" /\ ret[1] < 0
    /\ i_blocks > 0 /\ i_size > 0 /\ dirty

\* C8: a write whose transfer fails returns -EFAULT whatever it wrote before,
\* leaves size and timestamps alone, and keeps every block it allocated.
C8_FaultNotAbsorbed ==
    \A p \in Procs :
        (Done(p, "write") /\ why[p] = "L131") =>
            /\ ret[p] = -EFAULT
            /\ i_size = snap[p].size
            /\ i_mtime = snap[p].mtime /\ i_ctime = snap[p].ctime
            /\ i_blocks = snap[p].blocks
                            + Cardinality(block_bitmap \ snap[p].bitmap)
            /\ \A b \in block_bitmap \ snap[p].bitmap :
                  \E s \in Slots : i_blocks_array[s] = b

C8_Witness ==
    /\ Done(1, "write") /\ why[1] = "L131" /\ ret[1] = -EFAULT
    /\ bytes_written[1] > 0
    /\ i_blocks = snap[1].blocks + 2

\* C9: a write that starts at pos and returns a count n leaves
\* i_size = max(old i_size, pos + n).
C9_SizeUpdate ==
    \A p \in Procs :
        (Done(p, "write") /\ ret[p] >= 0) =>
            i_size = Max(snap[p].size, pos0[p] + ret[p])

C9_Witness ==
    /\ Done(1, "write") /\ ret[1] > 0
    /\ snap[1].size > 0 /\ pos0[1] + ret[1] < snap[1].size
    /\ i_size = snap[1].size

\* C10: a slot of i_blocks_array that holds a stored block number keeps it.
C10_MapStable ==
    [][ \A s \in Slots :
            i_blocks_array[s] # NoBlock => i_blocks_array'[s] = i_blocks_array[s] ]_vars

\* C11: i_size <= MAX_EXTENTS * BLOCK_SIZE in every state.
C11_MaxFileSize == i_size <= MAX_EXTENTS * BLOCK_SIZE

\* C12: a write that returns a count leaves i_mtime and i_ctime at the current
\* time, later than before the call, and the inode marked dirty; a write that
\* returns an error, and every read, leaves the three as they were.
C12_Timestamps ==
    \A p \in Procs :
        /\ (Done(p, "write") /\ ret[p] >= 0) =>
              /\ i_mtime = now /\ i_ctime = now /\ dirty
              /\ i_mtime > snap[p].mtime /\ i_ctime > snap[p].ctime
        /\ ((Done(p, "write") /\ ret[p] < 0) \/ Done(p, "read")) =>
              /\ i_mtime = snap[p].mtime
              /\ i_ctime = snap[p].ctime
              /\ dirty = snap[p].dirty

C12_Witness ==
    /\ Done(1, "read") /\ ret[1] > 0
    /\ dirty /\ i_mtime = now /\ i_mtime > 0

\* C14: a read leaves the inode, the block map and the data area as they were
\* at the call; a read at or past the end returns 0 with the position
\* unchanged; and a read repeated with the same position and length, neither
\* call faulting, returns the same count and the same bytes.
C14_ReadPure ==
    \A p \in Procs :
        Done(p, "read") =>
            /\ Shared = snap[p]
            /\ pos0[p] >= i_size =>
                  ret[p] = 0 /\ ppos[p] = pos0[p] /\ ubuf[p] = <<>>
            /\ (prev[p] # <<>> /\ ret[p] >= 0 /\ prev[p][1] >= 0) =>
                  ret[p] = prev[p][1] /\ ubuf[p] = prev[p][2]

C14_Witness ==
    /\ Done(1, "read") /\ prev[1] # <<>>
    /\ ret[1] > BLOCK_SIZE /\ ret[1] = prev[1][1] /\ ubuf[1] = prev[1][2]
    /\ \E i \in 1 .. ret[1] : ubuf[1][i] # Stale

\* the logical blocks this call stored a fresh block for, in order
StoredBlocks(p) ==
    LET st == SelectSeq(log[p], LAMBDA e : e[1] = "store")
    IN  [i \in 1 .. Len(st) |-> st[i][2]]

\* the logical blocks this call copied to or from, in order
CopiedBlocks(p) ==
    LET cp == SelectSeq(log[p], LAMBDA e : e[1] = "copy")
    IN  [i \in 1 .. Len(cp) |-> cp[i][2]]

\* the sequence a, a + 1, ..., b (empty when a > b)
Upward(a, b) == [i \in 1 .. Max(0, b - a + 1) |-> a + i - 1]

\* C15: a write of len > 0 bytes that starts at or below the allocated
\* frontier and completes fully copies into the logical blocks
\* floor(pos / BLOCK_SIZE) .. floor((pos + len - 1) / BLOCK_SIZE) in increasing
\* order, allocates exactly those at or above the prior block count, and leaves
\* the block count at max(prior count, last block + 1).
C15_BlockSpan ==
    \A p \in Procs :
        (/\ Done(p, "write") /\ len0[p] > 0 /\ ret[p] = len0[p]
         /\ pos0[p] <= snap[p].blocks * BLOCK_SIZE) =>
            LET first == LogicalBlockIndex(pos0[p])
                last  == LogicalBlockIndex(pos0[p] + len0[p] - 1)
            IN  /\ CopiedBlocks(p) = Upward(first, last)
                /\ StoredBlocks(p) = Upward(Max(first, snap[p].blocks), last)
                /\ i_blocks = Max(snap[p].blocks, last + 1)

C15_Witness ==
    /\ Done(1, "write") /\ ret[1] = len0[1] /\ snap[1].blocks = 1
    /\ pos0[1] < BLOCK_SIZE /\ pos0[1] + len0[1] > BLOCK_SIZE
    /\ CopiedBlocks(1) = <<0, 1>> /\ StoredBlocks(1) = <<1>> /\ i_blocks = 2

\* the bounds of one chunk: offset o, length n, r bytes still requested
ChunkInBounds(o, n, r) ==
    /\ 0 <= o /\ o < BLOCK_SIZE
    /\ 1 <= n /\ n <= BLOCK_SIZE
    /\ n <= r
    /\ o + n <= BLOCK_SIZE

\* C16: every chunk a read or a write transfers, and the chunk a write is
\* about to transfer, has 0 <= offset_in_block < BLOCK_SIZE,
\* 1 <= chunk_len <= BLOCK_SIZE, chunk_len <= the remaining length and
\* offset_in_block + chunk_len <= BLOCK_SIZE.
C16_ChunkBounds ==
    \A p \in Procs :
        /\ \A i \in 1 .. Len(log[p]) :
              log[p][i][1] = "copy" =>
                  /\ ChunkInBounds(log[p][i][3], log[p][i][4], log[p][i][6])
                  /\ log[p][i][3] = OffsetInBlock(log[p][i][3] + log[p][i][2] * BLOCK_SIZE)
        /\ pc[p] = "w_copy" =>
              /\ offset_in_block[p] = OffsetInBlock(ppos[p])
              /\ ChunkInBounds(offset_in_block[p],
                               ChunkLen(offset_in_block[p], len[p]), len[p])

C16_Witness ==
    /\ Done(1, "read") /\ Len(log[1]) = 2
    /\ log[1][1][3] > 0 /\ log[1][1][3] + log[1][1][4] = BLOCK_SIZE
    /\ log[1][1][6] > log[1][1][4]
    /\ log[1][2][3] = 0 /\ log[1][2][4] = log[1][2][6]

\* C17: every block a read or a write copies to or from was stored in the map
\* slot of its logical block from a successful allocation, and two logical
\* blocks the call copies to or from never resolve to the same physical block.
C17_AllocatorIssued ==
    \A p \in Procs :
        \A i \in 1 .. Len(log[p]) :
            log[p][i][1] = "copy" =>
                /\ i_blocks_array[log[p][i][2]] # NoBlock
                /\ i_blocks_array[log[p][i][2]] = log[p][i][5]
                /\ log[p][i][5] \in block_bitmap
                /\ \A j \in 1 .. Len(log[p]) :
                      (log[p][j][1] = "copy" /\ log[p][j][2] # log[p][i][2]) =>
                          log[p][j][5] # log[p][i][5]

\* C18: the block count never exceeds MAX_EXTENTS, and every index at which a
\* read or a write stores or reads a block map entry is below MAX_EXTENTS.
C18_MapInBounds ==
    /\ i_blocks <= MAX_EXTENTS
    /\ \A p \in Procs :
          /\ \A i \in 1 .. Len(log[p]) :
                log[p][i][2] >= 0 /\ log[p][i][2] < MAX_EXTENTS
          /\ pc[p] \in {"w_store", "w_incr", "w_copy"} =>
                logical_block_index[p] >= 0 /\ logical_block_index[p] < MAX_EXTENTS

C18_Witness ==
    /\ Done(1, "read") /\ i_blocks = MAX_EXTENTS /\ i_size = MAX_EXTENTS * BLOCK_SIZE
    /\ pos0[1] + len0[1] > i_size
    /\ \E i \in 1 .. Len(log[1]) :
          log[1][i][1] = "copy" /\ log[1][i][2] = MAX_EXTENTS - 1

\* C19: after a read or a write that returns a count n >= 0, the position
\* equals the position at the call plus n.
C19_Cursor ==
    \A p \in Procs :
        ((Done(p, "read") \/ Done(p, "write")) /\ ret[p] >= 0) =>
            ppos[p] = pos0[p] + ret[p]

C19_Witness ==
    /\ Done(1, "write") /\ ret[1] > 0 /\ ret[1] < len0[1]
    /\ ppos[1] = pos0[1] + ret[1]

\* C20: every read and every write call that was entered returns, and every
\* step of a call that comes back to the head of its loop has transferred at
\* least one byte and strictly decreased the remaining length.
C20_Termination ==
    /\ \A p \in Procs : Running(p) ~> (pc[p] = "ret")
    /\ [][\A p \in Procs :
              (Running(p) /\ pc'[p] \in {"w_loop", "r_loop"}) =>
                  /\ len'[p] < len[p] /\ len'[p] >= 0
                  /\ ppos'[p] - ppos[p] = len[p] - len'[p]]_vars

C20_Witness ==
    /\ Done(1, "write") /\ ret[1] = len0[1] /\ len0[1] = MaxLen
    /\ Len(log[1]) >= 3 /\ log[1][Len(log[1])][1] = "copy"

\* the map slots a block was stored in
StoredSlots == {s \in Slots : i_blocks_array[s] # NoBlock}

\* no call is running, the block count exceeds the slots stored, and a block
\* the allocator handed out is in no slot of the map
LostBlock ==
    /\ \A p \in Procs : ~Running(p)
    /\ i_blocks > Cardinality(StoredSlots)
    /\ \E b \in block_bitmap : \A s \in Slots : i_blocks_array[s] # b

\* C13: a state in which the block count was incremented twice for one
\* logical block and an allocated block is lost from the map is reached only
\* if a write was entered while another was running or a write started beyond
\* the allocated frontier: serialized writes that each start at or below the
\* frontier never reach it.
C13_SerializedNoLoss ==
    LostBlock => ("overlap" \in seen \/ "sparse" \in seen)

\* two interleaved writes, neither beyond the frontier, both stored a block
\* for the same logical block and one of the two blocks is lost
C13_Witness ==
    /\ LostBlock
    /\ seen = {"overlap"}
    /\ pc[1] = "ret" /\ pc[2] = "ret"
    /\ \E i \in 1 .. Len(log[1]), j \in 1 .. Len(log[2]) :
          /\ log[1][i][1] = "store" /\ log[2][j][1] = "store"
          /\ log[1][i][2] = log[2][j][2]
          /\ log[1][i][3] # log[2][j][3]
          /\ i_blocks_array[log[1][i][2]] \in {log[1][i][3], log[2][j][3]}
          /\ i_blocks = 2

====
